---- MODULE Spec2Model ----
(***************************************************************************)
(* AiBotX (src/index.js): a Telegram moderation bot.  Each webhook POST is *)
(* one update handled by one of the command handlers /rules, /unmute and   *)
(* /report.  A handler is a sequence of awaited calls (key-value store,    *)
(* platform API, inference endpoint); every such call is one step of the   *)
(* model and may succeed or fail.  Strings are sequences of one-character  *)
(* strings, so that trimming, splitting and parsing are computed.          *)
(***************************************************************************)
EXTENDS Integers, Sequences, FiniteSets

VARIABLES redis, pc, upd, loc, calls, out, lastOp

vars == <<redis, pc, upd, loc, calls, out, lastOp>>

(***************************************************************************)
(* Bounds and program constants                                            *)
(***************************************************************************)
\* Largest epoch second a clock reading or a message date takes.
MaxTime == 2

\* src/index.js:83, the minimum rule length.
MinRulesLen == 20

SPECIAL_ANONYMOUS_IDS == {1087968824, 136817688}

Handlers == {"h1", "h2"}

Chats == {-1001, -1002}

\* The users of the model and the membership status the platform holds for
\* each of them.
UserIds == [anon |-> 1087968824, creator |-> 11, admin |-> 12, member |-> 13]

AnonId == UserIds.anon

CreatorId == UserIds.creator

AdminId == UserIds.admin

MemberId == UserIds.member

Users == {AnonId, CreatorId, AdminId, MemberId}

MemberStatus(userId) ==
  CASE userId = CreatorId -> "creator"
    [] userId = AdminId -> "administrator"
    [] OTHER -> "member"

(***************************************************************************)
(* JavaScript string functions                                             *)
(***************************************************************************)
WhiteSpace == {" ", "\t", "\n"}

Digits == <<"0", "1", "2", "3", "4", "5", "6", "7", "8", "9">>

UpperChars == <<"A", "B", "C", "D", "E", "F", "G", "H", "I", "J", "K", "L", "M",
                "N", "O", "P", "Q", "R", "S", "T", "U", "V", "W", "X", "Y", "Z">>

LowerChars == <<"a", "b", "c", "d", "e", "f", "g", "h", "i", "j", "k", "l", "m",
                "n", "o", "p", "q", "r", "s", "t", "u", "v", "w", "x", "y", "z">>

Rep(ch, n) == [i \in 1..n |-> ch]

RECURSIVE TrimStart(_)
TrimStart(s) ==
  IF s # <<>> /\ Head(s) \in WhiteSpace THEN TrimStart(Tail(s)) ELSE s

RECURSIVE TrimEnd(_)
TrimEnd(s) ==
  IF s # <<>> /\ s[Len(s)] \in WhiteSpace
  THEN TrimEnd(SubSeq(s, 1, Len(s) - 1))
  ELSE s

\* Trim as a bug would have it: only leading white space is removed.
TrimStartOnly(s) == TrimStart(s)

\* String.prototype.trim
Trim(s) == TrimEnd(TrimStart(s))

\* The index of the first occurrence of pat in s, 0 when there is none.
IndexOf(s, pat) ==
  LET at == {i \in 1..(Len(s) - Len(pat) + 1) : SubSeq(s, i, i + Len(pat) - 1) = pat}
  IN IF at = {} THEN 0 ELSE CHOOSE i \in at : \A j \in at : i <= j

\* String.prototype.replace(pat, '') with a string pattern: the first
\* occurrence only.
RemoveFirst(s, pat) ==
  LET i == IndexOf(s, pat)
  IN IF i = 0 THEN s ELSE SubSeq(s, 1, i - 1) \o SubSeq(s, i + Len(pat), Len(s))

\* String.prototype.split(sep) with a one-character separator.
RECURSIVE Split(_, _)
Split(s, sep) ==
  LET i == IndexOf(s, <<sep>>)
  IN IF i = 0 THEN <<s>>
     ELSE <<SubSeq(s, 1, i - 1)>> \o Split(SubSeq(s, i + 1, Len(s)), sep)

\* Array.prototype.join(sep)
RECURSIVE Join(_, _)
Join(parts, sep) ==
  IF parts = <<>> THEN <<>>
  ELSE IF Len(parts) = 1 THEN parts[1]
  ELSE parts[1] \o <<sep>> \o Join(Tail(parts), sep)

\* Array.prototype.slice(1)
Slice1(parts) == IF parts = <<>> THEN <<>> ELSE Tail(parts)

\* Array.prototype.filter(Boolean) on an array of strings
RECURSIVE FilterNonEmpty(_)
FilterNonEmpty(parts) ==
  IF parts = <<>> THEN <<>>
  ELSE (IF parts[1] = <<>> THEN <<>> ELSE <<parts[1]>>) \o FilterNonEmpty(Tail(parts))

MapCase(ch, from, to) ==
  IF \E i \in 1..Len(from) : from[i] = ch
  THEN to[CHOOSE i \in 1..Len(from) : from[i] = ch]
  ELSE ch

ToLowerCase(s) == [i \in 1..Len(s) |-> MapCase(s[i], UpperChars, LowerChars)]

ToUpperCase(s) == [i \in 1..Len(s) |-> MapCase(s[i], LowerChars, UpperChars)]

DigitValue(ch) == (CHOOSE i \in 1..10 : Digits[i] = ch) - 1

IsDigit(ch) == \E i \in 1..10 : Digits[i] = ch

RECURSIVE DigitPrefix(_)
DigitPrefix(s) ==
  IF s # <<>> /\ IsDigit(Head(s)) THEN <<Head(s)>> \o DigitPrefix(Tail(s)) ELSE <<>>

RECURSIVE DigitsValue(_)
DigitsValue(ds) ==
  IF ds = <<>> THEN 0
  ELSE 10 * DigitsValue(SubSeq(ds, 1, Len(ds) - 1)) + DigitValue(ds[Len(ds)])

\* parseInt(s) and parseInt(s, 10) on a string without a 0x prefix: leading
\* white space is skipped, a sign is read, then the longest run of digits;
\* whatever follows the digits is ignored; NaN when there is no digit.
ParseInt(s) ==
  LET t == TrimStart(s)
      neg == t # <<>> /\ Head(t) = "-"
      body == IF t # <<>> /\ Head(t) \in {"-", "+"} THEN Tail(t) ELSE t
      ds == DigitPrefix(body)
  IN IF ds = <<>> THEN [nan |-> TRUE, num |-> 0]
     ELSE [nan |-> FALSE, num |-> IF neg THEN 0 - DigitsValue(ds) ELSE DigitsValue(ds)]

\* Number.prototype.toString() of a non-negative integer
RECURSIVE ToString(_)
ToString(n) ==
  IF n < 10 THEN <<Digits[n + 1]>> ELSE ToString(n \div 10) \o <<Digits[(n % 10) + 1]>>

(***************************************************************************)
(* The key-value store                                                     *)
(***************************************************************************)
Absent == [has |-> FALSE, val |-> <<>>]

Value(s) == [has |-> TRUE, val |-> s]

\* `group_simple_rules:${chatId}`
RulesKey(chatId) == <<"group_simple_rules", chatId>>

\* `group_rules_created:${chatId}`
CreatedKey(chatId) == <<"group_rules_created", chatId>>

Keys == {RulesKey(c) : c \in Chats} \cup {CreatedKey(c) : c \in Chats}

\* getSimpleRules on the outcome of redis.get: a failed read and an empty
\* string are both null.
GetSimpleRules(ok, stored) ==
  IF ok /\ stored.has /\ stored.val # <<>> THEN Value(stored.val) ELSE Absent

\* getRulesCreatedDate on the outcome of redis.get: parseInt(createdDate, 10),
\* null on a failed read or a missing key.
GetRulesCreatedDate(ok, stored) ==
  IF ok /\ stored.has /\ stored.val # <<>>
  THEN [has |-> TRUE, num |-> ParseInt(stored.val).num, nan |-> ParseInt(stored.val).nan]
  ELSE [has |-> FALSE, num |-> 0, nan |-> FALSE]

\* The date check as a bug would have it: the comparison reversed.
PredatesReversed(created, messageDate) ==
  created.has /\ ~created.nan /\ created.num # 0 /\ created.num < messageDate

\* rulesCreatedDate && messageDate < rulesCreatedDate (NaN and 0 are falsy)
PredatesRules(created, messageDate) ==
  created.has /\ ~created.nan /\ created.num # 0 /\ messageDate < created.num

\* The length check as a bug would have it: off by one.
TooShortByOne(rules) == Len(rules) < MinRulesLen - 1

\* rules.length < 20 in setCustomRules
TooShort(rules) == Len(rules) < MinRulesLen

(***************************************************************************)
(* Authorization                                                           *)
(***************************************************************************)
\* The status check as a bug would have it: administrators are left out.
IsCreatorStatus(status) == status = "creator"

\* ['administrator', 'creator'].includes(member.status)
IsAdminStatus(status) == status \in {"administrator", "creator"}

\* The lookup's result as a bug would have it: a failed lookup authorizes.
AuthorizedUnlessRefused(ok, status) == ~ok \/ status \in {"administrator", "creator"}

\* The result of isAuthorizedUser (and of the same check on the reported
\* user) once getChatMember has answered: false when the lookup threw.
AuthorizedByLookup(ok, status) == ok /\ IsAdminStatus(status)

\* SPECIAL_ANONYMOUS_IDS.includes(userId)
IsSpecial(userId) == userId \in SPECIAL_ANONYMOUS_IDS

(***************************************************************************)
(* Updates                                                                 *)
(***************************************************************************)
CmdRules == <<"/", "r", "u", "l", "e", "s">>

CmdUnmute == <<"/", "u", "n", "m", "u", "t", "e">>

CmdReport == <<"/", "r", "e", "p", "o", "r", "t">>

SubSet == <<"s", "e", "t">>

SubReset == <<"r", "e", "s", "e", "t">>

\* Rule arguments as typed after "/rules set": nothing, 19 characters, 19
\* characters inside white space, 20 characters, 20 characters inside white
\* space, and 21 characters with a space in the middle.
RuleArgs ==
  { <<>>,
    Rep("a", MinRulesLen - 1),
    <<" ">> \o Rep("a", MinRulesLen - 1) \o <<" ", " ">>,
    Rep("a", MinRulesLen),
    <<" ">> \o Rep("a", MinRulesLen) \o <<" ">>,
    Rep("b", MinRulesLen \div 2) \o <<" ">> \o Rep("b", MinRulesLen \div 2) }

\* Subcommands as typed after "/rules".
RuleSubs == { <<>>, SubSet, <<"S", "e", "T">>, SubReset, <<"f", "o", "o">> }

\* Arguments as typed after "/unmute".
UnmuteArgs == { <<>>, <<"a", "b", "c">>, <<"1", "3">>, <<"1", "3", "a", "b", "c">> }

Times == 1..MaxTime

MessageDates == 0..MaxTime

NoUpdate ==
  [cmd |-> "none", chatType |-> "none", chat |-> 0, from |-> 0, sub |-> <<>>,
   arg |-> <<>>, hasReply |-> FALSE, rFrom |-> 0, rDate |-> 0, rContent |-> "none"]

\* /rules updates: in a group, from every user, every subcommand; an argument
\* follows "set" only.  One update comes from a private chat.
RulesUpdates ==
  { [NoUpdate EXCEPT !.cmd = "rules", !.chatType = "supergroup", !.chat = c,
                     !.from = u, !.sub = sc] :
      c \in Chats, u \in Users, sc \in RuleSubs }
  \cup
  { [NoUpdate EXCEPT !.cmd = "rules", !.chatType = "supergroup", !.chat = c,
                     !.from = u, !.sub = SubSet, !.arg = a] :
      c \in Chats, u \in Users, a \in RuleArgs }
  \cup
  { [NoUpdate EXCEPT !.cmd = "rules", !.chatType = "private", !.chat = c,
                     !.from = AdminId, !.sub = SubSet, !.arg = Rep("a", MinRulesLen)] :
      c \in {-1001} }

\* /unmute updates: the target, when the argument names one, is MemberId.
UnmuteUpdates ==
  { [NoUpdate EXCEPT !.cmd = "unmute", !.chatType = "supergroup", !.chat = c,
                     !.from = u, !.arg = a] :
      c \in {-1001}, u \in Users, a \in UnmuteArgs }
  \cup
  { [NoUpdate EXCEPT !.cmd = "unmute", !.chatType = "private", !.chat = c,
                     !.from = AdminId, !.arg = <<"1", "3">>] :
      c \in {-1001} }

\* What the replied-to message carries: nothing to analyze, a text, a photo.
Contents == {"none", "text", "photo"}

\* /report updates: a reply to a message of any user, date and content, or
\* no reply at all.
ReportUpdates ==
  { [NoUpdate EXCEPT !.cmd = "report", !.chatType = "supergroup", !.chat = c,
                     !.from = MemberId, !.hasReply = TRUE, !.rFrom = u,
                     !.rDate = d, !.rContent = k] :
      c \in {-1001}, u \in Users, d \in MessageDates, k \in Contents }
  \cup
  { [NoUpdate EXCEPT !.cmd = "report", !.chatType = t, !.chat = c,
                     !.from = MemberId, !.hasReply = r, !.rFrom = IF r THEN MemberId ELSE 0,
                     !.rContent = IF r THEN "text" ELSE "none"] :
      c \in {-1001}, t \in {"supergroup", "private"}, r \in BOOLEAN }

\* The text of the message: the command, then what was typed after it.
MessageText(u) ==
  LET typed == IF u.sub = <<>> THEN u.arg
               ELSE IF u.arg = <<>> THEN u.sub ELSE u.sub \o <<" ">> \o u.arg
      cmd == CASE u.cmd = "rules" -> CmdRules
               [] u.cmd = "unmute" -> CmdUnmute
               [] OTHER -> CmdReport
  IN IF typed = <<>> THEN cmd ELSE cmd \o <<" ">> \o typed

\* ctx.message.text.replace(command, '').trim().split(' ')
Args(u, cmd) == Split(Trim(RemoveFirst(MessageText(u), cmd)), " ")

\* args[0]?.toLowerCase()
Subcommand(u) == ToLowerCase(Args(u, CmdRules)[1])

\* args.slice(1).join(' ').trim()
RulesText(u) == Trim(Join(Slice1(Args(u, CmdRules)), " "))

(***************************************************************************)
(* Handler state                                                           *)
(***************************************************************************)
NoReason == [kind |-> "none", text |-> <<>>]

NoInference == [kind |-> "none", content |-> <<>>]

NoLocals ==
  [replyKind |-> "none", onFail |-> "none", authorized |-> FALSE, userId |-> 0,
   rules |-> Absent, readFailed |-> FALSE, now |-> 0,
   created |-> GetRulesCreatedDate(FALSE, Absent), violates |-> FALSE,
   reason |-> NoReason, infer |-> NoInference]

\* History: the last /rules set or /rules reset of each chat whose store
\* calls are over, with the argument as it was typed; "failed" when a store
\* call of it failed.
NoOp == [op |-> "none", arg |-> <<>>]

Record(h, op) ==
  lastOp' = [lastOp EXCEPT ![upd[h].chat] =
               [op |-> op, arg |-> IF op = "set" THEN upd[h].arg ELSE <<>>]]

Init ==
  /\ redis = [k \in Keys |-> Absent]
  /\ pc = [h \in Handlers |-> "idle"]
  /\ upd = [h \in Handlers |-> NoUpdate]
  /\ loc = [h \in Handlers |-> NoLocals]
  /\ calls = [h \in Handlers |-> <<>>]
  /\ out = [h \in Handlers |-> "none"]
  /\ lastOp = [c \in Chats |-> NoOp]

Call(api, arg, ok) == [api |-> api, arg |-> arg, ok |-> ok]

\* The handler issues a call and goes on at `next` with its locals `l`.
Step(h, call, next, l) ==
  /\ calls' = [calls EXCEPT ![h] = Append(@, call)]
  /\ pc' = [pc EXCEPT ![h] = next]
  /\ loc' = [loc EXCEPT ![h] = l]

\* The handler's next await is ctx.reply(kind); when that reply is inside a
\* try block, onFail names the reply its catch block sends.
ToReply(l, kind, onFail) == [l EXCEPT !.replyKind = kind, !.onFail = onFail]

\* One update at a time: the update is delivered when no handler is running.
NoneRunning == \A h \in Handlers : pc[h] = "idle"

\* The handler that serves the updates delivered one at a time.
Worker == "h1"

(***************************************************************************)
(* /rules                                                                  *)
(***************************************************************************)
\* bot.command('rules') up to its first await, for an update of `updates`.
StartRules(h, updates) ==
  /\ pc[h] = "idle"
  /\ \E u \in updates :
       /\ upd' = [upd EXCEPT ![h] = u]
       /\ IF u.chatType # "supergroup"
          THEN /\ pc' = [pc EXCEPT ![h] = "reply"]
               /\ loc' = [loc EXCEPT ![h] = ToReply(NoLocals, "group_only", "none")]
          ELSE IF Subcommand(u) = <<>>
          THEN /\ pc' = [pc EXCEPT ![h] = "rules_show"]
               /\ loc' = [loc EXCEPT ![h] = NoLocals]
          ELSE /\ pc' = [pc EXCEPT ![h] = "auth"]
               /\ loc' = [loc EXCEPT ![h] = NoLocals]
  /\ calls' = [calls EXCEPT ![h] = <<>>]
  /\ out' = [out EXCEPT ![h] = "running"]
  /\ UNCHANGED <<redis, lastOp>>

\* A /rules update delivered while no other update is being handled.
ReceiveRules(h) == NoneRunning /\ StartRules(h, RulesUpdates)

\* /rules updates delivered while other updates are being handled: the
\* hosting environment runs one invocation of the entry point per update.
ConcurrentRulesUpdates ==
  { u \in RulesUpdates :
      /\ u.chatType = "supergroup"
      /\ u.from \in {AnonId}
      /\ u.sub \in {<<>>, SubSet, SubReset}
      /\ u.sub = SubSet => u.arg = Rep("a", MinRulesLen) }

ReceiveRulesConcurrently(h) == StartRules(h, ConcurrentRulesUpdates)

\* /rules without a subcommand: getSimpleRules, then the reply.
RulesShow(h) ==
  /\ pc[h] = "rules_show"
  /\ \E ok \in BOOLEAN :
       LET got == GetSimpleRules(ok, redis[RulesKey(upd[h].chat)])
           l == [loc[h] EXCEPT !.rules = got, !.readFailed = ~ok]
       IN Step(h, Call("redis.get", "rules", ok), "reply",
               ToReply(l, IF got.has THEN "current_rules" ELSE "no_rules_show", "none"))
  /\ UNCHANGED <<redis, upd, out, lastOp>>

\* The code of bot.command('rules') after isAuthorizedUser has answered, up
\* to the next await; setCustomRules throws on a short text before any write.
RulesAfterAuth(h, l) ==
  LET u == upd[h]
      sc == Subcommand(u)
  IN IF ~l.authorized /\ sc \in {SubSet, SubReset}
     THEN <<"reply", ToReply(l, "not_authorized_rules", "none")>>
     ELSE IF sc = SubSet
     THEN IF RulesText(u) = <<>> THEN <<"reply", ToReply(l, "usage_set", "none")>>
          ELSE IF TooShort(RulesText(u))
          THEN <<"reply", ToReply(l, "set_failed", "none")>>
          ELSE <<"set_rules", l>>
     ELSE IF sc = SubReset THEN <<"reset_rules", l>>
     ELSE <<"reply", ToReply(l, "invalid_subcommand", "none")>>

\* bot.command('unmute') after isAuthorizedUser has answered.
UnmuteAfterAuth(h, l) ==
  IF ~l.authorized THEN <<"reply", ToReply(l, "not_authorized_unmute", "none")>>
  ELSE <<"unmute_restrict", l>>

AfterAuth(h, l) ==
  IF upd[h].cmd = "rules" THEN RulesAfterAuth(h, l) ELSE UnmuteAfterAuth(h, l)

\* isAuthorizedUser: an anonymous-sender ID is authorized without a lookup;
\* otherwise getChatMember decides, and a failed lookup is "not authorized".
IsAuthorizedUser(h) ==
  /\ pc[h] = "auth"
  /\ IF IsSpecial(upd[h].from)
     THEN LET next == AfterAuth(h, [loc[h] EXCEPT !.authorized = TRUE])
          IN /\ pc' = [pc EXCEPT ![h] = next[1]]
             /\ loc' = [loc EXCEPT ![h] = next[2]]
             /\ UNCHANGED calls
     ELSE \E ok \in BOOLEAN :
            LET a == AuthorizedByLookup(ok, MemberStatus(upd[h].from))
                next == AfterAuth(h, [loc[h] EXCEPT !.authorized = a])
            IN Step(h, Call("getChatMember", "invoker", ok), next[1], next[2])
  /\ UNCHANGED <<redis, upd, out, lastOp>>

\* setCustomRules: redis.set of the trimmed text; the clock was read just
\* before (Math.floor(Date.now() / 1000)).
SetRules(h) ==
  /\ pc[h] = "set_rules"
  /\ \E ok \in BOOLEAN, now \in Times :
       /\ redis' = IF ok
                   THEN [redis EXCEPT ![RulesKey(upd[h].chat)] = Value(Trim(RulesText(upd[h])))]
                   ELSE redis
       /\ IF ok
          THEN Step(h, Call("redis.set", "rules", ok), "set_created",
                    [loc[h] EXCEPT !.now = now])
          ELSE Step(h, Call("redis.set", "rules", ok), "reply",
                    ToReply(loc[h], "set_failed", "none"))
       /\ IF ok THEN UNCHANGED lastOp ELSE Record(h, "failed")
  /\ UNCHANGED <<upd, out>>

\* setCustomRules: redis.set of the creation time.
SetCreated(h) ==
  /\ pc[h] = "set_created"
  /\ \E ok \in BOOLEAN :
       /\ redis' = IF ok
                   THEN [redis EXCEPT ![CreatedKey(upd[h].chat)] = Value(ToString(loc[h].now))]
                   ELSE redis
       /\ Step(h, Call("redis.set", "created", ok), "reply",
               ToReply(loc[h], IF ok THEN "set_ok" ELSE "set_failed", "none"))
       /\ Record(h, IF ok THEN "set" ELSE "failed")
  /\ UNCHANGED <<upd, out>>

\* /rules reset: redis.del of the rule text.
ResetRules(h) ==
  /\ pc[h] = "reset_rules"
  /\ \E ok \in BOOLEAN :
       /\ redis' = IF ok THEN [redis EXCEPT ![RulesKey(upd[h].chat)] = Absent] ELSE redis
       /\ IF ok
          THEN Step(h, Call("redis.del", "rules", ok), "reset_created", loc[h])
          ELSE Step(h, Call("redis.del", "rules", ok), "reply",
                    ToReply(loc[h], "reset_failed", "none"))
       /\ IF ok THEN UNCHANGED lastOp ELSE Record(h, "failed")
  /\ UNCHANGED <<upd, out>>

\* /rules reset: redis.del of the creation time; the confirming reply is
\* inside the try block, so its failure sends the failure reply.
ResetCreated(h) ==
  /\ pc[h] = "reset_created"
  /\ \E ok \in BOOLEAN :
       /\ redis' = IF ok THEN [redis EXCEPT ![CreatedKey(upd[h].chat)] = Absent] ELSE redis
       /\ Step(h, Call("redis.del", "created", ok), "reply",
               IF ok THEN ToReply(loc[h], "reset_ok", "reset_failed")
               ELSE ToReply(loc[h], "reset_failed", "none"))
       /\ Record(h, IF ok THEN "reset" ELSE "failed")
  /\ UNCHANGED <<upd, out>>

(***************************************************************************)
(* Replies and the end of a handler                                        *)
(***************************************************************************)
\* await ctx.reply(...): the handler returns after it; a failed reply is
\* caught only where the code has a try block around it.
Reply(h) ==
  /\ pc[h] = "reply"
  /\ \E ok \in BOOLEAN :
       /\ calls' = [calls EXCEPT ![h] = Append(@, Call("reply", loc[h].replyKind, ok))]
       /\ IF ok
          THEN /\ pc' = [pc EXCEPT ![h] = "done"]
               /\ out' = [out EXCEPT ![h] = "returned"]
               /\ UNCHANGED loc
          ELSE IF loc[h].onFail # "none"
          THEN /\ loc' = [loc EXCEPT ![h] = ToReply(@, loc[h].onFail, "none")]
               /\ UNCHANGED <<pc, out>>
          ELSE /\ pc' = [pc EXCEPT ![h] = "done"]
               /\ out' = [out EXCEPT ![h] = "threw"]
               /\ UNCHANGED loc
  /\ UNCHANGED <<redis, upd, lastOp>>

\* The webhook entry point after bot.handleUpdate: it returns, or answers 500
\* when the handler threw; the invocation is over.
Respond(h) ==
  /\ pc[h] = "done"
  /\ pc' = [pc EXCEPT ![h] = "idle"]
  /\ upd' = [upd EXCEPT ![h] = NoUpdate]
  /\ loc' = [loc EXCEPT ![h] = NoLocals]
  /\ calls' = [calls EXCEPT ![h] = <<>>]
  /\ out' = [out EXCEPT ![h] = "none"]
  /\ UNCHANGED <<redis, lastOp>>

(***************************************************************************)
(* /unmute                                                                 *)
(***************************************************************************)
\* args[0]?.trim() of /unmute
UserIdStr(u) == Trim(Args(u, CmdUnmute)[1])

\* !userIdStr || isNaN(parseInt(userIdStr))
BadUserId(str) == str = <<>> \/ ParseInt(str).nan

\* bot.command('unmute') up to its first await.
ReceiveUnmute(h) ==
  /\ NoneRunning
  /\ \E u \in UnmuteUpdates :
       /\ upd' = [upd EXCEPT ![h] = u]
       /\ IF u.chatType # "supergroup"
          THEN /\ pc' = [pc EXCEPT ![h] = "reply"]
               /\ loc' = [loc EXCEPT ![h] = ToReply(NoLocals, "group_only", "none")]
          ELSE IF BadUserId(UserIdStr(u))
          THEN /\ pc' = [pc EXCEPT ![h] = "reply"]
               /\ loc' = [loc EXCEPT ![h] = ToReply(NoLocals, "usage_unmute", "none")]
          ELSE /\ pc' = [pc EXCEPT ![h] = "auth"]
               /\ loc' = [loc EXCEPT ![h] =
                            [NoLocals EXCEPT !.userId = ParseInt(UserIdStr(u)).num]]
  /\ calls' = [calls EXCEPT ![h] = <<>>]
  /\ out' = [out EXCEPT ![h] = "running"]
  /\ UNCHANGED <<redis, lastOp>>

\* restrictChatMember with every permission granted and until_date false.
UnmuteRestrict(h) ==
  /\ pc[h] = "unmute_restrict"
  /\ \E ok \in BOOLEAN :
       IF ok
       THEN Step(h, Call("restrictChatMember", "unmute", ok), "unmute_lookup", loc[h])
       ELSE Step(h, Call("restrictChatMember", "unmute", ok), "reply",
                 ToReply(loc[h], "unmute_failed", "none"))
  /\ UNCHANGED <<redis, upd, out, lastOp>>

\* getChatMember for the display name (its failure is swallowed), then the
\* confirming reply inside the outer try block.
UnmuteLookup(h) ==
  /\ pc[h] = "unmute_lookup"
  /\ \E ok \in BOOLEAN :
       Step(h, Call("getChatMember", "target", ok), "reply",
            ToReply(loc[h], "unmuted", "unmute_failed"))
  /\ UNCHANGED <<redis, upd, out, lastOp>>

(***************************************************************************)
(* The inference client                                                    *)
(***************************************************************************)
Yes == <<"Y", "E", "S">>

\* What axios.post does: it throws (timeout, transport or HTTP error), or
\* answers a body without choices[0].message.content, or answers a content.
InferenceOutcomes ==
  { [kind |-> k, content |-> <<>>] : k \in {"timeout", "http_error", "no_content"} }
  \cup
  { [kind |-> "content", content |-> c] :
      c \in { <<>>,
              <<" ", "\n">>,
              Yes,
              Yes \o <<"\n", "a", "d">>,
              <<"y", "e", "s", " ", "\n", "\n", " ", "a", "\n", "b">>,
              <<"N", "O", "\n", "o", "k">>,
              Yes \o <<"!", "\n", "a", "d">>,
              <<"a", "d", "\n">> \o Yes } }

TrimAll(parts) == [i \in 1..Len(parts) |-> Trim(parts[i])]

\* The parse of a content in callHuggingFace.
ParseVerdict(content) ==
  LET c == Trim(content)
      parts == FilterNonEmpty(TrimAll(Split(c, "\n")))
      reason == Join(Slice1(parts), " ")
  IN IF c = <<>> THEN [violates |-> FALSE, reason |-> [kind |-> "no_response", text |-> <<>>]]
     ELSE [violates |-> ToUpperCase(parts[1]) = Yes,
           reason |-> IF reason = <<>> THEN [kind |-> "unspecified", text |-> <<>>]
                      ELSE [kind |-> "model", text |-> reason]]

\* callHuggingFace as a bug would have it: the catch block answers
\* "violation".
CallHuggingFaceFailOpen(o) ==
  IF o.kind \in {"timeout", "http_error"}
  THEN [violates |-> TRUE, reason |-> [kind |-> "unavailable", text |-> <<>>]]
  ELSE ParseVerdict(o.content)

\* callHuggingFace: the catch block answers "no violation".
CallHuggingFace(o) ==
  IF o.kind \in {"timeout", "http_error"}
  THEN [violates |-> FALSE, reason |-> [kind |-> "unavailable", text |-> <<>>]]
  ELSE ParseVerdict(o.content)

(***************************************************************************)
(* /report                                                                 *)
(***************************************************************************)
\* bot.command('report') up to its first await.
ReceiveReport(h) ==
  /\ NoneRunning
  /\ \E u \in ReportUpdates :
       /\ upd' = [upd EXCEPT ![h] = u]
       /\ IF u.chatType # "supergroup"
          THEN /\ pc' = [pc EXCEPT ![h] = "reply"]
               /\ loc' = [loc EXCEPT ![h] = ToReply(NoLocals, "group_only", "none")]
          ELSE IF ~u.hasReply
          THEN /\ pc' = [pc EXCEPT ![h] = "reply"]
               /\ loc' = [loc EXCEPT ![h] = ToReply(NoLocals, "usage_report", "none")]
          ELSE IF u.rContent = "none"
          THEN /\ pc' = [pc EXCEPT ![h] = "reply"]
               /\ loc' = [loc EXCEPT ![h] = ToReply(NoLocals, "no_content", "none")]
          ELSE IF IsSpecial(u.rFrom)
          THEN /\ pc' = [pc EXCEPT ![h] = "reply"]
               /\ loc' = [loc EXCEPT ![h] =
                            ToReply([NoLocals EXCEPT !.authorized = TRUE], "skipped", "none")]
          ELSE /\ pc' = [pc EXCEPT ![h] = "report_member"]
               /\ loc' = [loc EXCEPT ![h] = NoLocals]
  /\ calls' = [calls EXCEPT ![h] = <<>>]
  /\ out' = [out EXCEPT ![h] = "running"]
  /\ UNCHANGED <<redis, lastOp>>

\* getChatMember of the reported user; a failed lookup is "not exempt".
ReportMember(h) ==
  /\ pc[h] = "report_member"
  /\ \E ok \in BOOLEAN :
       LET a == AuthorizedByLookup(ok, MemberStatus(upd[h].rFrom))
           l == [loc[h] EXCEPT !.authorized = a]
       IN IF a
          THEN Step(h, Call("getChatMember", "reported", ok), "reply",
                    ToReply(l, "skipped", "none"))
          ELSE Step(h, Call("getChatMember", "reported", ok), "report_loading", l)
  /\ UNCHANGED <<redis, upd, out, lastOp>>

\* const loadingMsg = await ctx.reply('Analyzing content...'), outside any try.
ReportLoading(h) ==
  /\ pc[h] = "report_loading"
  /\ \E ok \in BOOLEAN :
       /\ calls' = [calls EXCEPT ![h] = Append(@, Call("reply", "analyzing", ok))]
       /\ pc' = [pc EXCEPT ![h] = IF ok THEN "report_rules" ELSE "done"]
       /\ out' = [out EXCEPT ![h] = IF ok THEN @ ELSE "threw"]
  /\ UNCHANGED <<redis, upd, loc, lastOp>>

\* The handler's next await is editMessageText of the status message.
ToEdit(l, kind, onFail) == [l EXCEPT !.replyKind = kind, !.onFail = onFail]

\* getSimpleRules in the try block of /report.
ReportRules(h) ==
  /\ pc[h] = "report_rules"
  /\ \E ok \in BOOLEAN :
       LET got == GetSimpleRules(ok, redis[RulesKey(upd[h].chat)])
           l == [loc[h] EXCEPT !.rules = got, !.readFailed = ~ok]
       IN IF got.has
          THEN Step(h, Call("redis.get", "rules", ok), "report_created", l)
          ELSE Step(h, Call("redis.get", "rules", ok), "edit",
                    ToEdit(l, "no_rules", "analysis_failed"))
  /\ UNCHANGED <<redis, upd, out, lastOp>>

\* getRulesCreatedDate and the check of the message date against it.
ReportCreated(h) ==
  /\ pc[h] = "report_created"
  /\ \E ok \in BOOLEAN :
       LET got == GetRulesCreatedDate(ok, redis[CreatedKey(upd[h].chat)])
           l == [loc[h] EXCEPT !.created = got]
       IN IF PredatesRules(got, upd[h].rDate)
          THEN Step(h, Call("redis.get", "created", ok), "edit",
                    ToEdit(l, "predates_rules", "analysis_failed"))
          ELSE Step(h, Call("redis.get", "created", ok),
                    IF upd[h].rContent = "photo" THEN "report_getfile" ELSE "report_infer", l)
  /\ UNCHANGED <<redis, upd, out, lastOp>>

\* bot.telegram.getFile of the largest photo size.
ReportGetFile(h) ==
  /\ pc[h] = "report_getfile"
  /\ \E ok \in BOOLEAN :
       IF ok
       THEN Step(h, Call("getFile", "photo", ok), "report_download", loc[h])
       ELSE Step(h, Call("getFile", "photo", ok), "edit",
                 ToEdit(loc[h], "analysis_failed", "none"))
  /\ UNCHANGED <<redis, upd, out, lastOp>>

\* axios.get of the file's bytes.
ReportDownload(h) ==
  /\ pc[h] = "report_download"
  /\ \E ok \in BOOLEAN :
       IF ok
       THEN Step(h, Call("axios.get", "photo", ok), "report_infer", loc[h])
       ELSE Step(h, Call("axios.get", "photo", ok), "edit",
                 ToEdit(loc[h], "analysis_failed", "none"))
  /\ UNCHANGED <<redis, upd, out, lastOp>>

\* callHuggingFace, then the verdict's text.
ReportInfer(h) ==
  /\ pc[h] = "report_infer"
  /\ \E o \in InferenceOutcomes :
       LET v == CallHuggingFace(o)
           l == [loc[h] EXCEPT !.violates = v.violates, !.reason = v.reason,
                               !.infer = o]
       IN Step(h, Call("axios.post", "inference", o.kind \notin {"timeout", "http_error"}),
               "edit", ToEdit(l, IF v.violates THEN "violation" ELSE "all_good", "none"))
  /\ UNCHANGED <<redis, upd, out, lastOp>>

\* bot.telegram.editMessageText of the status message.  Inside the try block
\* a failure goes to the catch block, which edits to the failure notice;
\* the edit of the catch block and the edit to the verdict are outside any
\* try.  Enforcement follows the verdict when it is a violation.
Edit(h) ==
  /\ pc[h] = "edit"
  /\ \E ok \in BOOLEAN :
       /\ calls' = [calls EXCEPT ![h] = Append(@, Call("editMessageText", loc[h].replyKind, ok))]
       /\ IF ok
          THEN IF loc[h].replyKind \in {"violation", "all_good"} /\ loc[h].violates
               THEN /\ pc' = [pc EXCEPT ![h] = "report_delete"]
                    /\ UNCHANGED <<loc, out>>
               ELSE /\ pc' = [pc EXCEPT ![h] = "done"]
                    /\ out' = [out EXCEPT ![h] = "returned"]
                    /\ UNCHANGED loc
          ELSE IF loc[h].onFail # "none"
          THEN /\ loc' = [loc EXCEPT ![h] = ToEdit(@, loc[h].onFail, "none")]
               /\ UNCHANGED <<pc, out>>
          ELSE /\ pc' = [pc EXCEPT ![h] = "done"]
               /\ out' = [out EXCEPT ![h] = "threw"]
               /\ UNCHANGED loc
  /\ UNCHANGED <<redis, upd, lastOp>>

\* bot.telegram.deleteMessage of the reported message.
ReportDelete(h) ==
  /\ pc[h] = "report_delete"
  /\ \E ok \in BOOLEAN :
       IF ok
       THEN Step(h, Call("deleteMessage", "reported", ok), "report_restrict", loc[h])
       ELSE Step(h, Call("deleteMessage", "reported", ok), "reply",
                 ToReply(loc[h], "action_failed", "none"))
  /\ UNCHANGED <<redis, upd, out, lastOp>>

\* restrictChatMember with no permission and until_date 0, then the
\* announcement inside the same try block.
ReportRestrict(h) ==
  /\ pc[h] = "report_restrict"
  /\ \E ok \in BOOLEAN :
       IF ok
       THEN Step(h, Call("restrictChatMember", "mute_forever", ok), "reply",
                 ToReply(loc[h], "muted", "action_failed"))
       ELSE Step(h, Call("restrictChatMember", "mute_forever", ok), "reply",
                 ToReply(loc[h], "action_failed", "none"))
  /\ UNCHANGED <<redis, upd, out, lastOp>>

Next ==
  \E h \in {Worker} :
    \/ ReceiveRules(h)
    \/ ReceiveUnmute(h)
    \/ UnmuteRestrict(h)
    \/ UnmuteLookup(h)
    \/ ReceiveReport(h)
    \/ ReportMember(h)
    \/ ReportLoading(h)
    \/ ReportRules(h)
    \/ ReportCreated(h)
    \/ ReportGetFile(h)
    \/ ReportDownload(h)
    \/ ReportInfer(h)
    \/ Edit(h)
    \/ ReportDelete(h)
    \/ ReportRestrict(h)
    \/ RulesShow(h)
    \/ IsAuthorizedUser(h)
    \/ SetRules(h)
    \/ SetCreated(h)
    \/ ResetRules(h)
    \/ ResetCreated(h)
    \/ Reply(h)
    \/ Respond(h)

Spec == Init /\ [][Next]_vars

\* /rules updates handled concurrently, interleaved at their awaited calls.
NextConcurrent ==
  \E h \in Handlers :
    \/ ReceiveRulesConcurrently(h)
    \/ RulesShow(h)
    \/ IsAuthorizedUser(h)
    \/ SetRules(h)
    \/ SetCreated(h)
    \/ ResetRules(h)
    \/ ResetCreated(h)
    \/ Reply(h)
    \/ Respond(h)

SpecConcurrent == Init /\ [][NextConcurrent]_vars

(***************************************************************************)
(* Vocabulary of the properties                                            *)
(***************************************************************************)
Done(h) == pc[h] = "done"

Issued(h, api) == \E i \in 1..Len(calls[h]) : calls[h][i].api = api

IssuedCall(h, call) == \E i \in 1..Len(calls[h]) : calls[h][i] = call

IssuedKind(h, api, arg) ==
  \E i \in 1..Len(calls[h]) : calls[h][i].api = api /\ calls[h][i].arg = arg

CountKind(h, api, arg) ==
  Cardinality({i \in 1..Len(calls[h]) : calls[h][i].api = api /\ calls[h][i].arg = arg})

LastIs(h, api, arg) ==
  /\ calls[h] # <<>>
  /\ calls[h][Len(calls[h])].api = api
  /\ calls[h][Len(calls[h])].arg = arg

\* A string without its leading and trailing white space, by position.
TrimOf(s) ==
  LET inked == {k \in 1..Len(s) : s[k] \notin WhiteSpace}
  IN IF inked = {} THEN <<>>
     ELSE SubSeq(s, CHOOSE k \in inked : \A m \in inked : k <= m,
                    CHOOSE k \in inked : \A m \in inked : m <= k)

AllowListed(userId) == userId \in {1087968824, 136817688}

HoldsAdminStatus(userId) == MemberStatus(userId) \in {"administrator", "creator"}

\* The invoking user passed the authorization check: allow-listed, or the
\* membership lookup answered administrator or creator.
PassedAuthorization(h) ==
  \/ AllowListed(upd[h].from)
  \/ /\ IssuedCall(h, Call("getChatMember", "invoker", TRUE))
     /\ HoldsAdminStatus(upd[h].from)

NoInferenceOrEnforcement(h) ==
  /\ ~Issued(h, "axios.post")
  /\ ~Issued(h, "deleteMessage")
  /\ ~Issued(h, "restrictChatMember")

\* No call of the handler failed, except possibly a call of this kind.
OnlyFailure(h, api, arg) ==
  \A i \in 1..Len(calls[h]) :
    calls[h][i].ok \/ (calls[h][i].api = api /\ calls[h][i].arg = arg)

NoFailure(h) == \A i \in 1..Len(calls[h]) : calls[h][i].ok

TypedSet(h) == upd[h].cmd = "rules" /\ upd[h].sub \in {SubSet, <<"S", "e", "T">>}

(***************************************************************************)
(* C1                                                                      *)
(***************************************************************************)
\* Some /rules set or /rules reset on the chat is between its two store calls.
MidRulesWrite(c) ==
  \E h \in Handlers : upd[h].chat = c /\ pc[h] \in {"set_created", "reset_created"}

\* C1: for every chat the rule-creation timestamp key is present if and only
\* if the rule text key is present, in every reachable state; stated here for
\* the states in which no set or reset is between its two store calls, which
\* the claim includes.
C1_TimestampIffText ==
  \A c \in Chats :
    ~MidRulesWrite(c) => (redis[CreatedKey(c)].has <=> redis[RulesKey(c)].has)

(***************************************************************************)
(* C2                                                                      *)
(***************************************************************************)
ReportOnExempt(h) ==
  /\ upd[h].cmd = "report"
  /\ upd[h].hasReply
  /\ AllowListed(upd[h].rFrom) \/ HoldsAdminStatus(upd[h].rFrom)

\* C2 as claimed, for the reports made in a group on a message that carries
\* a text or a photo, in which no call but the membership lookup fails: a
\* /report on a message of an allow-listed user, an
\* administrator or the creator ends with the 'skipped' reply and issues no
\* inference, deleteMessage or restrictChatMember call.
C2_ExemptAlwaysSkipped ==
  \A h \in Handlers :
    ( /\ ReportOnExempt(h)
      /\ upd[h].chatType = "supergroup"
      /\ upd[h].rContent # "none"
      /\ OnlyFailure(h, "getChatMember", "reported") )
    => /\ NoInferenceOrEnforcement(h)
       /\ Done(h) => LastIs(h, "reply", "skipped")

\* C2 as amended: a /report in a group, on a message that carries a text or a
\* photo, whose sender is allow-listed or for whom the membership lookup
\* answered administrator or creator, issues nothing but that lookup and the
\* 'skipped' reply, and ends with the 'skipped' reply.
C2_ExemptSkipped ==
  \A h \in Handlers :
    ( /\ ReportOnExempt(h)
      /\ upd[h].chatType = "supergroup"
      /\ upd[h].rContent # "none"
      /\ \/ AllowListed(upd[h].rFrom)
         \/ IssuedCall(h, Call("getChatMember", "reported", TRUE)) )
    => /\ NoInferenceOrEnforcement(h)
       /\ \A i \in 1..Len(calls[h]) :
            \/ calls[h][i] = Call("getChatMember", "reported", TRUE)
            \/ calls[h][i].api = "reply" /\ calls[h][i].arg = "skipped"
       /\ Done(h) => LastIs(h, "reply", "skipped")

\* An administrator's message was reported, the lookup answered, and the
\* handler ended with the 'skipped' reply.
C2_Witness ==
  \E h \in Handlers :
    /\ Done(h)
    /\ upd[h].cmd = "report"
    /\ upd[h].rFrom = AdminId
    /\ calls[h] = <<Call("getChatMember", "reported", TRUE), Call("reply", "skipped", TRUE)>>

(***************************************************************************)
(* C3                                                                      *)
(***************************************************************************)
\* C3: a /rules or /unmute handler whose invoker has not passed the
\* authorization check (not allow-listed, and no lookup that answered
\* administrator or creator: the status is another one, the lookup failed or
\* has not been made yet) has issued no store write, no store delete and no
\* restrictChatMember call.
C3_UnauthorizedChangesNothing ==
  \A h \in Handlers :
    (upd[h].cmd \in {"rules", "unmute"} /\ ~PassedAuthorization(h)) =>
      /\ ~Issued(h, "redis.set")
      /\ ~Issued(h, "redis.del")
      /\ ~Issued(h, "restrictChatMember")

\* An administrator asked for a reset of existing rules, the membership
\* lookup failed, and the handler ended with the refusal; the rules are
\* still stored.
C3_Witness ==
  \E h \in Handlers :
    /\ Done(h)
    /\ upd[h].cmd = "rules"
    /\ upd[h].sub = SubReset
    /\ upd[h].from = AdminId
    /\ calls[h] = <<Call("getChatMember", "invoker", FALSE),
                    Call("reply", "not_authorized_rules", TRUE)>>
    /\ redis[RulesKey(upd[h].chat)].has
    /\ redis[CreatedKey(upd[h].chat)].has

(***************************************************************************)
(* C4                                                                      *)
(***************************************************************************)
\* The chat's stored rule-creation timestamp is strictly later than the date
\* of the reported message.
MessagePredatesStored(h) ==
  /\ upd[h].cmd = "report"
  /\ upd[h].hasReply
  /\ \E t \in Times :
       /\ redis[CreatedKey(upd[h].chat)] = Value(ToString(t))
       /\ upd[h].rDate < t

\* C4 as claimed, for the reports that reach the read of the timestamp and
\* in which no call but that read fails: when the reported message is
\* strictly earlier than the stored timestamp, the handler issues no
\* inference, delete or restrict call and ends having published the 'message
\* predates rules' notice.
C4_OldMessageAlwaysAborts ==
  \A h \in Handlers :
    ( /\ MessagePredatesStored(h)
      /\ IssuedKind(h, "redis.get", "created")
      /\ OnlyFailure(h, "redis.get", "created") ) =>
      /\ NoInferenceOrEnforcement(h)
      /\ Done(h) => IssuedKind(h, "editMessageText", "predates_rules")

\* C4 as amended: when the reported message is strictly earlier than the
\* stored timestamp and the store read of the timestamp has not failed, the
\* handler issues no getFile, inference, delete or restrict call; and once
\* that read has succeeded, the next call is the edit to the 'message
\* predates rules' notice.
C4_OldMessageAborts ==
  \A h \in Handlers :
    (MessagePredatesStored(h) /\ ~IssuedCall(h, Call("redis.get", "created", FALSE))) =>
      /\ NoInferenceOrEnforcement(h)
      /\ ~Issued(h, "getFile")
      /\ \A i \in 1..Len(calls[h]) :
           calls[h][i] = Call("redis.get", "created", TRUE) =>
             IF i < Len(calls[h])
             THEN /\ calls[h][i + 1].api = "editMessageText"
                  /\ calls[h][i + 1].arg = "predates_rules"
             ELSE pc[h] = "edit" /\ loc[h].replyKind = "predates_rules"

\* A report on a message older than the stored timestamp read the timestamp
\* and ended with the notice published.
C4_Witness ==
  \E h \in Handlers :
    /\ Done(h)
    /\ MessagePredatesStored(h)
    /\ IssuedCall(h, Call("redis.get", "created", TRUE))
    /\ calls[h][Len(calls[h])] = Call("editMessageText", "predates_rules", TRUE)

(***************************************************************************)
(* C5                                                                      *)
(***************************************************************************)
\* C5: a /report that reached a violation verdict ends having issued, in this
\* order, the edit to the violation notice, deleteMessage, restrictChatMember
\* with no expiry and the announcement; when the delete or the restrict call
\* failed, it ends with exactly one degraded-outcome reply and no
\* announcement.  Stated for the runs in which no call fails but the edit to
\* the verdict, the delete and the restrict call.
C5_ViolationEnforced ==
  \A h \in Handlers :
    ( /\ Done(h)
      /\ upd[h].cmd = "report"
      /\ loc[h].violates
      /\ \A k \in 1..Len(calls[h]) :
           \/ calls[h][k].ok
           \/ calls[h][k].api \in {"editMessageText", "deleteMessage", "restrictChatMember"} ) =>
      \E i \in 1..Len(calls[h]) :
        LET cs == calls[h]
            n == Len(cs)
        IN /\ cs[i].api = "editMessageText" /\ cs[i].arg = "violation"
           /\ \A j \in 1..(i - 1) : cs[j].api \notin {"deleteMessage", "restrictChatMember"}
           /\ i + 1 <= n /\ cs[i + 1].api = "deleteMessage"
           /\ IF ~cs[i + 1].ok
              THEN /\ n = i + 2
                   /\ cs[n].api = "reply" /\ cs[n].arg = "action_failed"
              ELSE /\ i + 2 <= n
                   /\ cs[i + 2].api = "restrictChatMember"
                   /\ cs[i + 2].arg = "mute_forever"
                   /\ IF ~cs[i + 2].ok
                      THEN /\ n = i + 3
                           /\ cs[n].api = "reply" /\ cs[n].arg = "action_failed"
                      ELSE /\ i + 3 <= n
                           /\ cs[i + 3].api = "reply" /\ cs[i + 3].arg = "muted"

(***************************************************************************)
(* C6                                                                      *)
(***************************************************************************)
\* The inference call timed out, failed at transport or HTTP level, or
\* answered without a content or with an empty one.
InferenceFailed(o) ==
  \/ o.kind \in {"timeout", "http_error", "no_content"}
  \/ o.kind = "content" /\ \A k \in 1..Len(o.content) : o.content[k] \in WhiteSpace

\* C6: after a failed inference call the verdict is 'no violation' with one
\* of the two generic reasons, the next call of the handler is the edit to
\* the clearance notice, it is the last one (the handler returns when it
\* succeeds), and no deleteMessage or restrictChatMember call is issued.
C6_InferenceFailsClosed ==
  \A h \in Handlers :
    (upd[h].cmd = "report" /\ InferenceFailed(loc[h].infer)) =>
      /\ ~loc[h].violates
      /\ loc[h].reason.kind \in {"unavailable", "no_response"}
      /\ ~Issued(h, "deleteMessage")
      /\ ~Issued(h, "restrictChatMember")
      /\ LastIs(h, "axios.post", "inference") =>
           pc[h] = "edit" /\ loc[h].replyKind = "all_good"
      /\ ~LastIs(h, "axios.post", "inference") =>
           /\ Done(h)
           /\ LastIs(h, "editMessageText", "all_good")
           /\ CountKind(h, "editMessageText", "all_good") = 1
           /\ calls[h][Len(calls[h])].ok => out[h] = "returned"

\* The inference call timed out and the report ended with the clearance
\* notice published.
C6_Witness ==
  \E h \in Handlers :
    /\ Done(h)
    /\ loc[h].infer.kind = "timeout"
    /\ calls[h][Len(calls[h])] = Call("editMessageText", "all_good", TRUE)
    /\ out[h] = "returned"

(***************************************************************************)
(* C7                                                                      *)
(***************************************************************************)
\* C7: no handler ends with an uncaught exception: a failed platform call is
\* caught where it is made.  Stated for the runs in which a single call
\* fails.
C7_NoUncaughtError ==
  \A h \in Handlers :
    Cardinality({i \in 1..Len(calls[h]) : ~calls[h][i].ok}) <= 1 => out[h] # "threw"

(***************************************************************************)
(* C8                                                                      *)
(***************************************************************************)
\* C8: a /rules set whose rule text is shorter than 20 characters after
\* trimming issues no store write and no store delete, and never sends the
\* confirmation; sent by an invoker who passed the authorization check in a
\* group, with a rule text that is not empty, its only reply is the failure
\* reply.
C8_ShortRulesRejected ==
  \A h \in Handlers :
    (TypedSet(h) /\ Len(TrimOf(upd[h].arg)) < 20) =>
      /\ ~Issued(h, "redis.set")
      /\ ~Issued(h, "redis.del")
      /\ ~IssuedKind(h, "reply", "set_ok")
      /\ ( /\ Done(h)
           /\ upd[h].chatType = "supergroup"
           /\ PassedAuthorization(h)
           /\ TrimOf(upd[h].arg) # <<>> )
         => /\ LastIs(h, "reply", "set_failed")
            /\ Cardinality({i \in 1..Len(calls[h]) : calls[h][i].api = "reply"}) = 1

\* An administrator set a text of 19 characters typed inside white space (22
\* with it) over existing rules and got the failure reply.
C8_Witness ==
  \E h \in Handlers :
    /\ Done(h)
    /\ TypedSet(h)
    /\ Len(upd[h].arg) > 20
    /\ Len(TrimOf(upd[h].arg)) = 19
    /\ upd[h].from = AdminId
    /\ LastIs(h, "reply", "set_failed")
    /\ redis[RulesKey(upd[h].chat)].has

(***************************************************************************)
(* C9                                                                      *)
(***************************************************************************)
\* The argument is a user ID: digits and nothing else.
NumericId(arg) == arg # <<>> /\ \A k \in 1..Len(arg) : IsDigit(arg[k])

\* C9: a /unmute in a group whose argument is missing or is not entirely a
\* number issues the usage reply and no other call.  Stated for the runs in
\* which no call fails.
C9_BadArgumentGetsUsage ==
  \A h \in Handlers :
    ( /\ upd[h].cmd = "unmute"
      /\ upd[h].chatType = "supergroup"
      /\ ~NumericId(upd[h].arg)
      /\ NoFailure(h)
      /\ calls[h] # <<>> )
    => /\ Len(calls[h]) = 1
       /\ LastIs(h, "reply", "usage_unmute")

(***************************************************************************)
(* C10                                                                     *)
(***************************************************************************)
\* What getRuleText is to return for the chat after the last successful set
\* or reset (or when no set or reset ever reached the store).
MatchesLastOp(c, got) ==
  /\ lastOp[c].op = "set" => got = Value(TrimOf(lastOp[c].arg))
  /\ lastOp[c].op \in {"reset", "none"} => got = Absent

\* C10 as claimed: whenever a handler has called getSimpleRules for a chat,
\* it got the trimmed text of the chat's last successful set, or absent after
\* a reset, whatever was set or reset on the other chat.
C10_GetAlwaysReturnsLastSet ==
  \A h \in Handlers :
    IssuedKind(h, "redis.get", "rules") => MatchesLastOp(upd[h].chat, loc[h].rules)

\* C10 as amended: the same, when the store read of getSimpleRules did not
\* fail.
C10_GetReturnsLastSet ==
  \A h \in Handlers :
    IssuedCall(h, Call("redis.get", "rules", TRUE)) =>
      MatchesLastOp(upd[h].chat, loc[h].rules)

\* /rules showed a text that was typed inside white space, while the last
\* operation on the other chat was a reset.
C10_Witness ==
  \E h \in Handlers :
    /\ upd[h].cmd = "rules"
    /\ IssuedCall(h, Call("redis.get", "rules", TRUE))
    /\ lastOp[upd[h].chat].op = "set"
    /\ lastOp[upd[h].chat].arg # TrimOf(lastOp[upd[h].chat].arg)
    /\ loc[h].rules = Value(TrimOf(lastOp[upd[h].chat].arg))
    /\ \E c \in Chats : c # upd[h].chat /\ lastOp[c].op = "reset"

====
